---- MODULE Spec2Model ----
(***************************************************************************)
(* State-machine model of the S3 cross-account transfer tool (main.go):    *)
(* the main flow (startup checks, listing, pool start, enqueue, close,     *)
(* wait, report), the workers draining the job channel, the two-tier       *)
(* transfer (moveObject / moveObjectFallback) and the mutex-guarded        *)
(* TransferStats.                                                          *)
(*                                                                         *)
(* Byte sizes are kept exact as <<hi, lo>> = hi * 2^30 + lo, because       *)
(* 5 GiB does not fit the model checker's integers.                        *)
(***************************************************************************)
EXTENDS Integers, Sequences, FiniteSets, TLC

\* ---------------------------------------------------------------- bounds
\* Largest number of objects the source bucket holds in the model.
MaxKeys == 3
\* Largest number of jobs the model lets the channel buffer (of QueueCap).
MaxQueue == 2
\* Largest number of clock ticks between StartTime and EndTime.
MaxElapsed == 1

\* ---------------------------------------------------- program constants
QueueCap == 1000
LargePool == 150
SmallPool == 25
PoolThreshold == 1000
LimitGiB == 5

GiB == 1024 * 1024 * 1024

Min(a, b) == IF a < b THEN a ELSE b

\* ------------------------------------------------------------ byte sizes
ZeroSize == <<0, 0>>

\* int64 addition of two byte counts (no overflow at these magnitudes)
SizeAdd(a, b) ==
    LET lo == a[2] + b[2]
    IN  IF lo >= GiB THEN <<a[1] + b[1] + 1, lo - GiB>>
                     ELSE <<a[1] + b[1], lo>>

SizeLimit == <<LimitGiB, 0>>

SizeGT(a, b) == a[1] > b[1] \/ (a[1] = b[1] /\ a[2] > b[2])

\* the size check with `>=` for `>`
TooLargeGE(fileSize) == ~SizeGT(SizeLimit, fileSize)

\* fileSize > 5*1024*1024*1024
TooLarge(fileSize) == SizeGT(fileSize, SizeLimit)

\* Object sizes HeadObject may report: limit - 1, limit, limit + 1.
Sizes == { <<LimitGiB - 1, GiB - 1>>, <<LimitGiB, 0>>, <<LimitGiB, 1>> }

\* --------------------------------------------------------------- the pool
\* the threshold test written with `<=`
poolSizeLE(n) == IF n <= PoolThreshold THEN SmallPool ELSE LargePool

\* workerCount := 150; if len(keys) < 1000 { workerCount = 25 }
poolSize(n) == IF n < PoolThreshold THEN SmallPool ELSE LargePool

\* The goroutines the model runs: the pool is scaled down to two workers,
\* numbered in the order main starts them.
Workers == {1, 2}

\* The fatal checks main makes before listing, in program order.
StartupSteps ==
    << "godotenv.Load", "os.MkdirAll", "connectDB", "testDBConnection",
       "initS3Client.src", "initS3Client.dst",
       "testS3Connection.src", "testS3Connection.dst" >>

VARIABLES
    mainPc,       \* position of main
    startup,      \* number of startup checks passed
    bucket,       \* environment: number of objects in the source bucket
    token,        \* listKeys: continuation token (0 = nil)
    keys,         \* listKeys: keys accumulated so far
    stats,        \* the shared TransferStats
    jobChan,      \* buffered channel contents
    closed,       \* jobChan has been closed
    wg,           \* sync.WaitGroup counter
    mu,           \* sync.Mutex: 0 = unlocked, else the holding worker
    workerCount,  \* main's workerCount
    spawned,      \* main's loop variable w
    next,         \* main's position in `for _, key := range keys`
    wk,           \* per worker: pc, job, err, fileSize, tmp and the
                  \* history of the job in hand
    hist,         \* history of the run (see NewHist)
    report        \* what writeSummaryLog rendered, or NoReport

vars == << mainPc, startup, bucket, token, keys, stats, jobChan, closed, wg,
           mu, workerCount, spawned, next, wk, hist, report >>

NoReport == [written |-> 0]

\* stats := &TransferStats{StartTime: time.Now(), Method: make(map...)}
NewStats ==
    [ StartTime |-> 0, EndTime |-> 0, TotalFiles |-> 0, SuccessCount |-> 0,
      ErrorCount |-> 0, TotalSizeBytes |-> ZeroSize, Method |-> << >> ]

\* m[k]++ on a Go map: a missing key reads as 0
MapGet(m, k) == IF k \in DOMAIN m THEN m[k] ELSE 0
MapPut(m, k, v) == [x \in DOMAIN m \cup {k} |-> IF x = k THEN v ELSE m[x]]

\* A worker's locals, and for the job it has in hand: how CopyObject ended,
\* the storage calls made (operation, bucket, key), what the job added to
\* TotalSizeBytes, the Method entries it incremented and the counters it
\* incremented. insertErr: whether logToDB's db.Exec failed for the job the
\* worker has just finished.
IdleWorker ==
    [ pc |-> "unstarted", job |-> 0, err |-> "nil", fileSize |-> ZeroSize,
      tmp |-> 0, copy |-> "none", calls |-> << >>, bytes |-> ZeroSize,
      method |-> << >>, succInc |-> 0, errInc |-> 0, insertErr |-> FALSE ]

\* What the storage answered for one key: how CopyObject and HeadObject
\* ended, the ContentLength HeadObject reported and how the streaming
\* transfer ended ("none": not called).
NoAnswers ==
    [ copy |-> "none", head |-> "none", size |-> ZeroSize, stream |-> "none" ]

\* What a finished run leaves behind for a later one to be compared with.
NoRun ==
    [ SuccessCount |-> 0, ErrorCount |-> 0, TotalSizeBytes |-> ZeroSize,
      Method |-> << >>, dst |-> << >> ]

\* History of a run over the keys 1 .. n: how often each key's job was
\* received and how often logToDB was called for it, the logToDB calls by
\* status, the stats a serial execution of the same job outcomes yields,
\* and the summed sizes of the jobs streamed successfully. While listKeys
\* runs: the continuation token of each request answered and the page it
\* was answered with. For a run that is followed by a re-run (run = 1) and
\* for the re-run (run = 2; run = 0: a single run, nothing kept): the
\* storage's answers per key, the object the destination bucket holds under
\* each key (0: none, else the source object of that number) and the
\* outcome of the first run.
NewHist(n) ==
    [ requests |-> << >>,
      pages    |-> << >>,
      taken    |-> [k \in 1 .. n |-> 0],
      logged   |-> [k \in 1 .. n |-> 0],
      audit    |-> [success |-> 0, error |-> 0],
      serial   |-> [SuccessCount |-> 0, ErrorCount |-> 0,
                    TotalSizeBytes |-> ZeroSize, Method |-> << >>],
      streamed |-> ZeroSize,
      run      |-> 0,
      storage  |-> << >>,
      dst      |-> << >>,
      first    |-> NoRun ]

Init ==
    /\ mainPc = "startup"
    /\ startup = 0
    /\ bucket \in 0 .. MaxKeys
    /\ token = 0
    /\ keys = << >>
    /\ stats = NewStats
    /\ jobChan = << >>
    /\ closed = FALSE
    /\ wg = 0
    /\ mu = 0
    /\ workerCount = 0
    /\ spawned = 0
    /\ next = 1
    /\ wk = [w \in Workers |-> IdleWorker]
    /\ hist = NewHist(bucket)
    /\ report = NoReport

\* ------------------------------------------------------------------ main
\* main, lines 41-73: each startup check either passes or is fatal.
mainStartup ==
    /\ mainPc = "startup"
    /\ \E ok \in BOOLEAN :
          IF ~ok THEN /\ mainPc' = "fatal"
                      /\ startup' = startup
          ELSE /\ startup' = startup + 1
               /\ mainPc' = IF startup + 1 = Len(StartupSteps)
                              THEN "listKeys" ELSE "startup"
    /\ UNCHANGED << bucket, token, keys, stats, jobChan, closed, wg, mu,
                    workerCount, spawned, next, wk, hist, report >>

\* The storage service's answer to a ListObjectsV2 request carrying the
\* continuation token `tok`, with a page of n keys: the keys after the
\* first `tok` keys of the bucket, whether more follow, and the token for
\* the next request. The token 0 is the absent token of the first request.
ListObjectsV2(tok, n) ==
    [ Contents |-> [i \in 1 .. n |-> tok + i],
      IsTruncated |-> tok + n < bucket,
      NextContinuationToken |-> tok + n ]

\* listKeys never passing the continuation token on
listKeysNoToken ==
    /\ mainPc = "listKeys"
    /\ \/ /\ mainPc' = "fatal"
          /\ UNCHANGED << token, keys, hist >>
       \/ \E n \in 0 .. bucket :
             LET resp == ListObjectsV2(0, n)
             IN  /\ n = 0 => bucket = 0
                 /\ keys' = keys \o resp.Contents
                 /\ hist' = [hist EXCEPT !.requests = Append(@, 0),
                                         !.pages = Append(@, resp)]
                 /\ IF resp.IsTruncated
                      THEN /\ token' = resp.NextContinuationToken
                           /\ mainPc' = "listKeys"
                      ELSE /\ token' = token
                           /\ mainPc' = "listed"
    /\ UNCHANGED << startup, bucket, stats, jobChan, closed, wg, mu,
                    workerCount, spawned, next, wk, report >>

\* listKeys returning the keys listed so far when a request fails
listKeysBreakOnError ==
    /\ mainPc = "listKeys"
    /\ \/ /\ mainPc' = "listed"
          /\ UNCHANGED << token, keys, hist >>
       \/ \E n \in 0 .. (bucket - token) :
             LET resp == ListObjectsV2(token, n)
             IN  /\ n = 0 => bucket = token
                 /\ keys' = keys \o resp.Contents
                 /\ hist' = [hist EXCEPT !.requests = Append(@, token),
                                         !.pages = Append(@, resp)]
                 /\ IF resp.IsTruncated
                      THEN /\ token' = resp.NextContinuationToken
                           /\ mainPc' = "listKeys"
                      ELSE /\ token' = token
                           /\ mainPc' = "listed"
    /\ UNCHANGED << startup, bucket, stats, jobChan, closed, wg, mu,
                    workerCount, spawned, next, wk, report >>

\* listKeys, one iteration of the loop: the service answers the request
\* carrying `token` with the next page, or the request fails (log.Fatalf).
listKeys ==
    /\ mainPc = "listKeys"
    /\ \/ /\ mainPc' = "fatal"
          /\ UNCHANGED << token, keys, hist >>
       \/ \E n \in 0 .. (bucket - token) :
             LET resp == ListObjectsV2(token, n)
             IN  /\ n = 0 => bucket = token
                 /\ keys' = keys \o resp.Contents
                 /\ hist' = [hist EXCEPT !.requests = Append(@, token),
                                         !.pages = Append(@, resp)]
                 /\ IF resp.IsTruncated
                      THEN /\ token' = resp.NextContinuationToken
                           /\ mainPc' = "listKeys"
                      ELSE /\ token' = token
                           /\ mainPc' = "listed"
    /\ UNCHANGED << startup, bucket, stats, jobChan, closed, wg, mu,
                    workerCount, spawned, next, wk, report >>

\* mainCount without the `if len(keys) == 0` branch
mainCountNoEmptyBranch ==
    /\ mainPc = "listed"
    /\ stats' = [stats EXCEPT !.TotalFiles = Len(keys)]
    /\ mainPc' = "spawn"
    /\ workerCount' = Min(poolSize(Len(keys)), Cardinality(DOMAIN wk))
    /\ hist' = [hist EXCEPT !.requests = << >>, !.pages = << >>]
    /\ UNCHANGED << startup, bucket, token, keys, jobChan, closed, wg, mu,
                    spawned, next, wk, report >>

\* main, lines 76-99: TotalFiles, the empty-bucket branch, make(chan Job,
\* 1000) and the choice of workerCount, which is capped by the number of
\* goroutines the model has. The record of the listing's requests ends
\* here.
mainCount ==
    /\ mainPc = "listed"
    /\ stats' = [stats EXCEPT !.TotalFiles = Len(keys)]
    /\ IF Len(keys) = 0
         THEN /\ mainPc' = "emptyReport"
              /\ workerCount' = workerCount
         ELSE /\ mainPc' = "spawn"
              /\ workerCount' = Min(poolSize(Len(keys)), Cardinality(DOMAIN wk))
    /\ hist' = [hist EXCEPT !.requests = << >>, !.pages = << >>]
    /\ UNCHANGED << startup, bucket, token, keys, jobChan, closed, wg, mu,
                    spawned, next, wk, report >>

\* A float64 division a / b, kept as its operands: Go yields +Inf or NaN
\* when b is 0.
Quot(a, b) == << a, b >>

\* the zero value of a `var x float64` that is never assigned
ZeroQuot == << 0, 1 >>

\* writeSummaryLog, lines 289-366: the values the report is rendered from,
\* the divisions made for it, whether os.WriteFile wrote the file (a failure
\* is only printed), and how often the report was computed.
writeSummaryLog(st, count, wrote) ==
    LET duration == st.EndTime - st.StartTime
    IN  [ written |-> report.written + 1, saved |-> wrote,
          TotalFiles |-> st.TotalFiles,
          SuccessCount |-> st.SuccessCount, ErrorCount |-> st.ErrorCount,
          TotalSizeBytes |-> st.TotalSizeBytes, Method |-> st.Method,
          Duration |-> duration,
          filesPerSecond |-> IF duration > 0
                               THEN Quot(st.SuccessCount, duration)
                               ELSE ZeroQuot,
          mbPerSecond |-> IF duration > 0
                            THEN Quot(st.TotalSizeBytes, duration)
                            ELSE Quot(ZeroSize, 1),
          successRate |-> IF st.TotalFiles > 0
                            THEN Quot(st.SuccessCount, st.TotalFiles)
                            ELSE ZeroQuot,
          percentage |-> [m \in DOMAIN st.Method |->
                             Quot(st.Method[m], st.SuccessCount)],
          workerCount |-> count ]

\* main, lines 80-83: the empty run stamps EndTime, writes the report and
\* returns without starting the pool.
mainEmptyReport ==
    /\ mainPc = "emptyReport"
    /\ \E d \in 0 .. MaxElapsed, wrote \in BOOLEAN :
          /\ stats' = [stats EXCEPT !.EndTime = stats.StartTime + d]
          /\ report' = writeSummaryLog(stats', 0, wrote)
    /\ mainPc' = "done"
    /\ UNCHANGED << startup, bucket, token, keys, jobChan, closed, wg, mu,
                    workerCount, spawned, next, wk, hist >>

\* main, lines 101-104: wg.Add(1); go worker(...)
mainSpawn ==
    /\ mainPc = "spawn"
    /\ spawned < workerCount
    /\ wg' = wg + 1
    /\ wk' = [wk EXCEPT ![spawned + 1].pc = "range"]
    /\ spawned' = spawned + 1
    /\ mainPc' = IF spawned + 1 = workerCount THEN "enqueue" ELSE "spawn"
    /\ UNCHANGED << startup, bucket, token, keys, stats, jobChan, closed, mu,
                    workerCount, next, hist, report >>

\* main, lines 106-108: jobChan <- Job{Key: key}, blocking while the
\* buffer is full.
mainEnqueue ==
    /\ mainPc = "enqueue"
    /\ next <= Len(keys)
    /\ Len(jobChan) < Min(QueueCap, MaxQueue)
    /\ jobChan' = Append(jobChan, keys[next])
    /\ next' = next + 1
    /\ UNCHANGED << mainPc, startup, bucket, token, keys, stats, closed, wg,
                    mu, workerCount, spawned, wk, hist, report >>

\* main going to wg.Wait() without close(jobChan)
mainCloseOmitted ==
    /\ mainPc = "enqueue"
    /\ next > Len(keys)
    /\ mainPc' = "wait"
    /\ UNCHANGED << startup, bucket, token, keys, stats, jobChan, closed, wg,
                    mu, workerCount, spawned, next, wk, hist, report >>

\* main, line 109: close(jobChan)
mainClose ==
    /\ mainPc = "enqueue"
    /\ next > Len(keys)
    /\ closed' = TRUE
    /\ mainPc' = "wait"
    /\ UNCHANGED << startup, bucket, token, keys, stats, jobChan, wg, mu,
                    workerCount, spawned, next, wk, hist, report >>

\* a wait that returns as soon as one worker is done
WaitDoneAny == wg < workerCount

\* wg.Wait() returns when the counter is zero
WaitDone == wg = 0

\* main, line 110: wg.Wait()
mainWait ==
    /\ mainPc = "wait"
    /\ WaitDone
    /\ mainPc' = "stamp"
    /\ UNCHANGED << startup, bucket, token, keys, stats, jobChan, closed, wg,
                    mu, workerCount, spawned, next, wk, hist, report >>

\* main, lines 112-124: stats.EndTime = time.Now() and the console summary
mainStampEnd ==
    /\ mainPc = "stamp"
    /\ \E d \in 0 .. MaxElapsed :
          stats' = [stats EXCEPT !.EndTime = stats.StartTime + d]
    /\ mainPc' = "report"
    /\ UNCHANGED << startup, bucket, token, keys, jobChan, closed, wg, mu,
                    workerCount, spawned, next, wk, hist, report >>

\* main exiting fatally instead of reporting when no job succeeded
mainReportFatalWhenAllFailed ==
    /\ mainPc = "report"
    /\ IF stats.SuccessCount = 0
         THEN mainPc' = "fatal" /\ report' = report
         ELSE /\ mainPc' = "done"
              /\ \E wrote \in BOOLEAN :
                    report' = writeSummaryLog(stats, workerCount, wrote)
    /\ UNCHANGED << startup, bucket, token, keys, stats, jobChan, closed, wg,
                    mu, workerCount, spawned, next, wk, hist >>

\* main, lines 126-128: writeSummaryLog(stats, bucketSrc, bucketDst,
\* workerCount) and return
mainReport ==
    /\ mainPc = "report"
    /\ \E wrote \in BOOLEAN :
          report' = writeSummaryLog(stats, workerCount, wrote)
    /\ mainPc' = "done"
    /\ UNCHANGED << startup, bucket, token, keys, stats, jobChan, closed, wg,
                    mu, workerCount, spawned, next, wk, hist >>

\* a second run that goes on counting in the first run's TransferStats
mainRestartKeepStats ==
    /\ mainPc = "done"
    /\ hist.run = 1
    /\ mainPc' = "startup"
    /\ startup' = 0
    /\ token' = 0
    /\ keys' = << >>
    /\ stats' = stats
    /\ jobChan' = << >>
    /\ closed' = FALSE
    /\ wg' = 0
    /\ mu' = 0
    /\ workerCount' = 0
    /\ spawned' = 0
    /\ next' = 1
    /\ wk' = [w \in DOMAIN wk |-> IdleWorker]
    /\ report' = NoReport
    /\ hist' = [NewHist(bucket) EXCEPT
          !.run = 2, !.storage = hist.storage, !.dst = hist.dst,
          !.first = [SuccessCount |-> stats.SuccessCount,
                     ErrorCount |-> stats.ErrorCount,
                     TotalSizeBytes |-> stats.TotalSizeBytes,
                     Method |-> stats.Method, dst |-> hist.dst]]
    /\ UNCHANGED bucket

\* The program is run again after a run that returned: nothing of a process
\* outlives it but the buckets, so main starts over at lines 35-39 with a new
\* TransferStats, a new channel and new workers.
mainRestart ==
    /\ mainPc = "done"
    /\ hist.run = 1
    /\ mainPc' = "startup"
    /\ startup' = 0
    /\ token' = 0
    /\ keys' = << >>
    /\ stats' = NewStats
    /\ jobChan' = << >>
    /\ closed' = FALSE
    /\ wg' = 0
    /\ mu' = 0
    /\ workerCount' = 0
    /\ spawned' = 0
    /\ next' = 1
    /\ wk' = [w \in DOMAIN wk |-> IdleWorker]
    /\ report' = NoReport
    /\ hist' = [NewHist(bucket) EXCEPT
          !.run = 2, !.storage = hist.storage, !.dst = hist.dst,
          !.first = [SuccessCount |-> stats.SuccessCount,
                     ErrorCount |-> stats.ErrorCount,
                     TotalSizeBytes |-> stats.TotalSizeBytes,
                     Method |-> stats.Method, dst |-> hist.dst]]
    /\ UNCHANGED bucket

\* ---------------------------------------------------------------- worker
\* what a worker never touches
mainVars ==
    << mainPc, startup, bucket, token, keys, workerCount, spawned, next,
       report >>

\* The re-run meets the storage behaviour of the first run: an answer b
\* (some fields of NoAnswers) for key k is possible in the re-run only if it
\* is the answer the first run got.
Replayed(k, b) ==
    hist.run = 2 => \A f \in DOMAIN b : hist.storage[k][f] = b[f]

\* the first of two runs keeps the storage's answer b for key k
Recorded(h, k, b) ==
    IF h.run = 1
      THEN [h EXCEPT !.storage[k] =
              [f \in DOMAIN @ |-> IF f \in DOMAIN b THEN b[f] ELSE @[f]]]
      ELSE h

\* CopyObject (lines 217-222) and PutObject (lines 269-275) carry no
\* precondition on the destination: a successful write puts the source
\* object under the key whether or not the key exists there.
Written(h, k) == IF h.run = 0 THEN h ELSE [h EXCEPT !.dst[k] = k]

\* A storage call made for a job: the operation, the bucket and the key.
\* ctx tells whether the call was handed the context made at line 64, which
\* every S3 call of a worker is (lines 217, 239, 258, 269).
Call(op, bkt, key) == [op |-> op, bucket |-> bkt, key |-> key, ctx |-> TRUE]

\* logToDB, lines 368-374: the INSERT for a key is db.Exec, which takes no
\* context; logToDB has no context parameter.
Exec(key) == [op |-> "Exec", bucket |-> "db", key |-> key, ctx |-> FALSE]

\* mu.Lock(): blocks until the mutex is free
LockNoWait(w) == mu' = w
Lock(w) == mu = 0 /\ mu' = w

\* mu.Unlock()
Unlock(w) == mu' = 0

\* a worker taking the next key from the listing before main has sent it
workerReceiveUnsent(w) ==
    /\ wk[w].pc = "range"
    /\ next <= Len(keys)
    /\ jobChan' = jobChan
    /\ wk' = [wk EXCEPT ![w].pc = "moveObject", ![w].job = keys[next],
                        ![w].insertErr = FALSE]
    /\ hist' = [hist EXCEPT !.taken[keys[next]] = @ + 1]
    /\ UNCHANGED << mainVars, stats, closed, wg, mu >>

\* a receive that leaves the job in the channel
workerReceivePeek(w) ==
    /\ wk[w].pc = "range"
    /\ Len(jobChan) > 0
    /\ jobChan' = jobChan
    /\ wk' = [wk EXCEPT ![w].pc = "moveObject", ![w].job = Head(jobChan),
                        ![w].insertErr = FALSE]
    /\ hist' = [hist EXCEPT !.taken[Head(jobChan)] = @ + 1]
    /\ UNCHANGED << mainVars, stats, closed, wg, mu >>

\* worker, line 186: `for job := range jobs` receives the next job
workerReceive(w) ==
    /\ wk[w].pc = "range"
    /\ Len(jobChan) > 0
    /\ jobChan' = Tail(jobChan)
    /\ wk' = [wk EXCEPT ![w].pc = "moveObject", ![w].job = Head(jobChan),
                        ![w].insertErr = FALSE]
    /\ hist' = [hist EXCEPT !.taken[Head(jobChan)] = @ + 1]
    /\ UNCHANGED << mainVars, stats, closed, wg, mu >>

\* worker, lines 185-186: the range loop ends when the channel is closed
\* and drained; the deferred wg.Done() runs.
workerExit(w) ==
    /\ wk[w].pc = "range"
    /\ Len(jobChan) = 0
    /\ closed
    /\ wk' = [wk EXCEPT ![w].pc = "exited", ![w].insertErr = FALSE]
    /\ wg' = wg - 1
    /\ UNCHANGED << mainVars, stats, jobChan, closed, mu, hist >>

\* a fallback that goes on to GetObject after HeadObject failed
moveObjectHeadThenGet(w) ==
    /\ wk[w].pc = "moveObject"
    /\ LET copy == Call("CopyObject", "dst", wk[w].job)
           head == Call("HeadObject", "src", wk[w].job)
           get == Call("GetObject", "src", wk[w].job)
       IN  \/ wk' = [wk EXCEPT ![w].pc = "mo_lock", ![w].copy = "ok",
                               ![w].calls = Append(@, copy)]
           \/ wk' = [wk EXCEPT ![w].pc = "w_lock", ![w].copy = "failed",
                               ![w].err = "head",
                               ![w].calls = @ \o <<copy, head, get>>]
           \/ \E size \in Sizes :
                 wk' = [wk EXCEPT ![w].pc = "fb_lock", ![w].copy = "failed",
                                  ![w].fileSize = size,
                                  ![w].calls = @ \o <<copy, head>>]
    /\ UNCHANGED << mainVars, stats, jobChan, closed, wg, mu, hist >>

\* moveObject returning the CopyObject error instead of falling back
moveObjectNoFallback(w) ==
    /\ wk[w].pc = "moveObject"
    /\ LET copy == Call("CopyObject", "dst", wk[w].job)
       IN  \/ wk' = [wk EXCEPT ![w].pc = "mo_lock", ![w].copy = "ok",
                               ![w].calls = Append(@, copy)]
           \/ wk' = [wk EXCEPT ![w].pc = "w_lock", ![w].copy = "failed",
                               ![w].err = "copy",
                               ![w].calls = Append(@, copy)]
    /\ UNCHANGED << mainVars, stats, jobChan, closed, wg, mu, hist >>

\* moveObject, lines 215-227, and moveObjectFallback, lines 237-248, up to
\* the first mu.Lock(): CopyObject into the destination bucket under the
\* job's key; on any error the fallback's HeadObject on the source, whose
\* error is returned wrapped and whose ContentLength becomes fileSize.
moveObject(w) ==
    /\ wk[w].pc = "moveObject"
    /\ LET copy == Call("CopyObject", "dst", wk[w].job)
           head == Call("HeadObject", "src", wk[w].job)
           copied == [copy |-> "ok"]
           noHead == [copy |-> "failed", head |-> "failed"]
       IN  \/ /\ Replayed(wk[w].job, copied)
              /\ wk' = [wk EXCEPT ![w].pc = "mo_lock", ![w].copy = "ok",
                                  ![w].calls = Append(@, copy)]
              /\ hist' = Written(Recorded(hist, wk[w].job, copied), wk[w].job)
           \/ /\ Replayed(wk[w].job, noHead)
              /\ wk' = [wk EXCEPT ![w].pc = "w_lock", ![w].copy = "failed",
                                  ![w].err = "head",
                                  ![w].calls = @ \o <<copy, head>>]
              /\ hist' = Recorded(hist, wk[w].job, noHead)
           \/ \E size \in Sizes :
                 LET sized == [copy |-> "failed", head |-> "ok", size |-> size]
                 IN  /\ Replayed(wk[w].job, sized)
                     /\ wk' = [wk EXCEPT ![w].pc = "fb_lock",
                                         ![w].copy = "failed",
                                         ![w].fileSize = size,
                                         ![w].calls = @ \o <<copy, head>>]
                     /\ hist' = Recorded(hist, wk[w].job, sized)
    /\ UNCHANGED << mainVars, stats, jobChan, closed, wg, mu >>

\* moveObject, lines 229-230: mu.Lock() and the read of
\* stats.Method["server-side"]
moveObjectLock(w) ==
    /\ wk[w].pc = "mo_lock"
    /\ Lock(w)
    /\ wk' = [wk EXCEPT ![w].pc = "mo_crit",
                        ![w].tmp = MapGet(stats.Method, "server-side")]
    /\ UNCHANGED << mainVars, stats, jobChan, closed, wg, hist >>

\* moveObject returning nil without counting the method
moveObjectUnlockNoCount(w) ==
    /\ wk[w].pc = "mo_crit"
    /\ stats' = stats
    /\ Unlock(w)
    /\ wk' = [wk EXCEPT ![w].pc = "w_lock", ![w].err = "nil", ![w].tmp = 0]
    /\ hist' = hist
    /\ UNCHANGED << mainVars, jobChan, closed, wg >>

\* moveObjectUnlock counting the copy under the fallback's map key
moveObjectUnlockWrongKey(w) ==
    /\ wk[w].pc = "mo_crit"
    /\ stats' = [stats EXCEPT
          !.Method = MapPut(@, "streaming", MapGet(@, "streaming") + 1)]
    /\ Unlock(w)
    /\ wk' = [wk EXCEPT ![w].pc = "w_lock", ![w].err = "nil", ![w].tmp = 0,
                        ![w].method = Append(@, "streaming")]
    /\ hist' = [hist EXCEPT
          !.serial.Method = MapPut(@, "streaming", MapGet(@, "streaming") + 1)]
    /\ UNCHANGED << mainVars, jobChan, closed, wg >>

\* moveObject, lines 230-233: the write of stats.Method["server-side"],
\* mu.Unlock() and return nil
moveObjectUnlock(w) ==
    /\ wk[w].pc = "mo_crit"
    /\ stats' = [stats EXCEPT
          !.Method = MapPut(@, "server-side", wk[w].tmp + 1)]
    /\ Unlock(w)
    /\ wk' = [wk EXCEPT ![w].pc = "w_lock", ![w].err = "nil", ![w].tmp = 0,
                        ![w].method = Append(@, "server-side")]
    /\ hist' = [hist EXCEPT
          !.serial.Method = MapPut(@, "server-side",
                                   MapGet(@, "server-side") + 1)]
    /\ UNCHANGED << mainVars, jobChan, closed, wg >>

\* moveObjectFallback, lines 250-251: mu.Lock() and the read of
\* stats.TotalSizeBytes
fallbackSizeLock(w) ==
    /\ wk[w].pc = "fb_lock"
    /\ Lock(w)
    /\ wk' = [wk EXCEPT ![w].pc = "fb_crit", ![w].tmp = stats.TotalSizeBytes]
    /\ UNCHANGED << mainVars, stats, jobChan, closed, wg, hist >>

\* a fallback that uploads under another key than the job's
fallbackStreamRenamed(w) ==
    LET get == Call("GetObject", "src", wk[w].job)
        put == Call("PutObject", "dst", wk[w].job + 1)
    IN  IF TooLarge(wk[w].fileSize)
          THEN { [pc |-> "w_lock", err |-> "too large", calls |-> << >>] }
          ELSE { [pc |-> "w_lock", err |-> "get", calls |-> <<get>>],
                 [pc |-> "w_lock", err |-> "put", calls |-> <<get, put>>],
                 [pc |-> "fm_lock", err |-> "nil", calls |-> <<get, put>>] }

\* moveObjectFallback, lines 254-279, after the size was added: the 5 GiB
\* check, then GetObject on the source and PutObject into the destination.
\* The result is the worker's next position, its error and the calls made.
fallbackStream(w) ==
    LET get == Call("GetObject", "src", wk[w].job)
        put == Call("PutObject", "dst", wk[w].job)
    IN  IF TooLarge(wk[w].fileSize)
          THEN { [pc |-> "w_lock", err |-> "too large", calls |-> << >>] }
          ELSE { [pc |-> "w_lock", err |-> "get", calls |-> <<get>>],
                 [pc |-> "w_lock", err |-> "put", calls |-> <<get, put>>],
                 [pc |-> "fm_lock", err |-> "nil", calls |-> <<get, put>>] }

\* fallbackSizeUnlock with `=` for `+=`
fallbackSizeAssign(w) ==
    /\ wk[w].pc = "fb_crit"
    /\ stats' = [stats EXCEPT !.TotalSizeBytes = wk[w].fileSize]
    /\ Unlock(w)
    /\ \E r \in fallbackStream(w) :
          wk' = [wk EXCEPT ![w].pc = r.pc, ![w].err = r.err, ![w].tmp = 0,
                           ![w].calls = @ \o r.calls,
                           ![w].bytes = SizeAdd(@, wk[w].fileSize)]
    /\ hist' = [hist EXCEPT
          !.serial.TotalSizeBytes = SizeAdd(@, wk[w].fileSize)]
    /\ UNCHANGED << mainVars, jobChan, closed, wg >>

\* moveObjectFallback, lines 251-279: stats.TotalSizeBytes += fileSize,
\* mu.Unlock(), and the streaming transfer up to its return or to the next
\* mu.Lock().
fallbackSizeUnlock(w) ==
    /\ wk[w].pc = "fb_crit"
    /\ stats' = [stats EXCEPT
          !.TotalSizeBytes = SizeAdd(wk[w].tmp, wk[w].fileSize)]
    /\ Unlock(w)
    /\ \E r \in fallbackStream(w) :
          LET streamed == Recorded(hist, wk[w].job, [stream |-> r.err])
          IN  /\ Replayed(wk[w].job, [stream |-> r.err])
              /\ wk' = [wk EXCEPT ![w].pc = r.pc, ![w].err = r.err,
                                  ![w].tmp = 0,
                                  ![w].calls = @ \o r.calls,
                                  ![w].bytes = SizeAdd(@, wk[w].fileSize)]
              /\ hist' = [(IF r.err = "nil" THEN Written(streamed, wk[w].job)
                                           ELSE streamed) EXCEPT
                    !.serial.TotalSizeBytes = SizeAdd(@, wk[w].fileSize)]
    /\ UNCHANGED << mainVars, jobChan, closed, wg >>

\* the fallback returning PutObject's error after counting the method
fallbackMethodUnlockThenFail(w) ==
    /\ wk[w].pc = "fm_crit"
    /\ stats' = [stats EXCEPT
          !.Method = MapPut(@, "streaming", wk[w].tmp + 1)]
    /\ Unlock(w)
    /\ wk' = [wk EXCEPT ![w].pc = "w_lock", ![w].err = "put", ![w].tmp = 0,
                        ![w].method = Append(@, "streaming")]
    /\ hist' = [hist EXCEPT
          !.serial.Method = MapPut(@, "streaming", MapGet(@, "streaming") + 1),
          !.streamed = SizeAdd(@, wk[w].fileSize)]
    /\ UNCHANGED << mainVars, jobChan, closed, wg >>

\* moveObjectFallback, lines 281-282: mu.Lock() and the read of
\* stats.Method["streaming"]
fallbackMethodLock(w) ==
    /\ wk[w].pc = "fm_lock"
    /\ Lock(w)
    /\ wk' = [wk EXCEPT ![w].pc = "fm_crit",
                        ![w].tmp = MapGet(stats.Method, "streaming")]
    /\ UNCHANGED << mainVars, stats, jobChan, closed, wg, hist >>

\* moveObjectFallback, lines 282-286: the write of stats.Method["streaming"],
\* mu.Unlock() and return nil
fallbackMethodUnlock(w) ==
    /\ wk[w].pc = "fm_crit"
    /\ stats' = [stats EXCEPT
          !.Method = MapPut(@, "streaming", wk[w].tmp + 1)]
    /\ Unlock(w)
    /\ wk' = [wk EXCEPT ![w].pc = "w_lock", ![w].err = "nil", ![w].tmp = 0,
                        ![w].method = Append(@, "streaming")]
    /\ hist' = [hist EXCEPT
          !.serial.Method = MapPut(@, "streaming", MapGet(@, "streaming") + 1),
          !.streamed = SizeAdd(@, wk[w].fileSize)]
    /\ UNCHANGED << mainVars, jobChan, closed, wg >>

\* worker, lines 193-199: mu.Lock() and the read of the counter the job's
\* outcome selects
workerLock(w) ==
    /\ wk[w].pc = "w_lock"
    /\ Lock(w)
    /\ wk' = [wk EXCEPT
          ![w].pc = "w_crit",
          ![w].tmp = IF wk[w].err # "nil" THEN stats.ErrorCount
                                          ELSE stats.SuccessCount]
    /\ UNCHANGED << mainVars, stats, jobChan, closed, wg, hist >>

\* workerUnlock without the `else`: an error is counted as a success too
workerUnlockBoth(w) ==
    /\ wk[w].pc = "w_crit"
    /\ IF wk[w].err # "nil"
         THEN /\ stats' = [stats EXCEPT !.ErrorCount = wk[w].tmp + 1,
                                        !.SuccessCount = @ + 1]
              /\ wk' = [wk EXCEPT ![w].pc = "logToDB", ![w].tmp = 0,
                                  ![w].errInc = @ + 1, ![w].succInc = @ + 1]
              /\ hist' = [hist EXCEPT !.serial.ErrorCount = @ + 1,
                                      !.serial.SuccessCount = @ + 1]
         ELSE /\ stats' = [stats EXCEPT !.SuccessCount = wk[w].tmp + 1]
              /\ wk' = [wk EXCEPT ![w].pc = "logToDB", ![w].tmp = 0,
                                  ![w].succInc = @ + 1]
              /\ hist' = [hist EXCEPT !.serial.SuccessCount = @ + 1]
    /\ Unlock(w)
    /\ UNCHANGED << mainVars, jobChan, closed, wg >>

\* worker, lines 194-201: stats.ErrorCount++ or stats.SuccessCount++, then
\* mu.Unlock()
workerUnlock(w) ==
    /\ wk[w].pc = "w_crit"
    /\ IF wk[w].err # "nil"
         THEN /\ stats' = [stats EXCEPT !.ErrorCount = wk[w].tmp + 1]
              /\ wk' = [wk EXCEPT ![w].pc = "logToDB", ![w].tmp = 0,
                                  ![w].errInc = @ + 1]
              /\ hist' = [hist EXCEPT !.serial.ErrorCount = @ + 1]
         ELSE /\ stats' = [stats EXCEPT !.SuccessCount = wk[w].tmp + 1]
              /\ wk' = [wk EXCEPT ![w].pc = "logToDB", ![w].tmp = 0,
                                  ![w].succInc = @ + 1]
              /\ hist' = [hist EXCEPT !.serial.SuccessCount = @ + 1]
    /\ Unlock(w)
    /\ UNCHANGED << mainVars, jobChan, closed, wg >>

\* status := "success"; if err != nil { status = "error" }
Status(err) == IF err # "nil" THEN "error" ELSE "success"

\* logToDB reached only by successful jobs (a `continue` on error)
logToDBSkipOnError(w) ==
    /\ wk[w].pc = "logToDB"
    /\ hist' = IF wk[w].err # "nil" THEN hist
               ELSE [hist EXCEPT !.logged[wk[w].job] = @ + 1,
                                 !.audit[Status(wk[w].err)] = @ + 1]
    /\ wk' = [wk EXCEPT ![w] = [IdleWorker EXCEPT !.pc = "range"]]
    /\ UNCHANGED << mainVars, stats, jobChan, closed, wg, mu >>

\* a worker that returns after logging a failed job
logToDBReturnOnError(w) ==
    /\ wk[w].pc = "logToDB"
    /\ hist' = [hist EXCEPT !.logged[wk[w].job] = @ + 1,
                            !.audit[Status(wk[w].err)] = @ + 1]
    /\ IF wk[w].err # "nil"
         THEN /\ wk' = [wk EXCEPT ![w] = [IdleWorker EXCEPT !.pc = "exited"]]
              /\ wg' = wg - 1
         ELSE /\ wk' = [wk EXCEPT ![w] = [IdleWorker EXCEPT !.pc = "range"]]
              /\ wg' = wg
    /\ UNCHANGED << mainVars, stats, jobChan, closed, mu >>

\* logToDB called with the status "success" whatever the job's error
logToDBAlwaysSuccess(w) ==
    /\ wk[w].pc = "logToDB"
    /\ hist' = [hist EXCEPT !.logged[wk[w].job] = @ + 1,
                            !.audit["success"] = @ + 1]
    /\ \E inserted \in BOOLEAN :
          wk' = [wk EXCEPT ![w] = [IdleWorker EXCEPT !.pc = "range",
                                                    !.insertErr = ~inserted]]
    /\ UNCHANGED << mainVars, stats, jobChan, closed, wg, mu >>

\* logToDB counting a failed insert as a failed job
logToDBCountInsertError(w) ==
    /\ wk[w].pc = "logToDB"
    /\ hist' = [hist EXCEPT !.logged[wk[w].job] = @ + 1,
                            !.audit[Status(wk[w].err)] = @ + 1]
    /\ \E inserted \in BOOLEAN :
          /\ wk' = [wk EXCEPT ![w] = [IdleWorker EXCEPT !.pc = "range",
                                                        !.insertErr = ~inserted]]
          /\ stats' = IF inserted THEN stats
                      ELSE [stats EXCEPT !.ErrorCount = @ + 1]
    /\ UNCHANGED << mainVars, jobChan, closed, wg, mu >>

\* worker, lines 203-210, and logToDB, lines 368-374: db.Exec of the INSERT
\* of (key, status, msg); a failed insert is only printed. The loop then
\* takes the next job.
logToDB(w) ==
    /\ wk[w].pc = "logToDB"
    /\ hist' = [hist EXCEPT !.logged[wk[w].job] = @ + 1,
                            !.audit[Status(wk[w].err)] = @ + 1]
    /\ \E inserted \in BOOLEAN :
          wk' = [wk EXCEPT ![w] = [IdleWorker EXCEPT !.pc = "range",
                                                    !.insertErr = ~inserted]]
    /\ UNCHANGED << mainVars, stats, jobChan, closed, wg, mu >>

worker(w) ==
    \/ workerReceive(w)
    \/ workerExit(w)
    \/ moveObject(w)
    \/ moveObjectLock(w)
    \/ moveObjectUnlock(w)
    \/ fallbackSizeLock(w)
    \/ fallbackSizeUnlock(w)
    \/ fallbackMethodLock(w)
    \/ fallbackMethodUnlock(w)
    \/ workerLock(w)
    \/ workerUnlock(w)
    \/ logToDB(w)

main ==
    \/ mainStartup
    \/ listKeys
    \/ mainCount
    \/ mainEmptyReport
    \/ mainSpawn
    \/ mainEnqueue
    \/ mainClose
    \/ mainWait
    \/ mainStampEnd
    \/ mainReport

Next == main \/ \E w \in Workers : worker(w)

Spec == Init /\ [][Next]_vars

\* The key counts around the pool-size threshold.
PoolKeyCounts == {1, 998, 999, 1000, 1001}

\* main after a successful listing of n keys, n around the threshold, with
\* the full pool of goroutines to start.
PoolInit ==
    /\ mainPc = "listed"
    /\ startup = Len(StartupSteps)
    /\ bucket \in PoolKeyCounts
    /\ token = 0
    /\ keys = [i \in 1 .. bucket |-> i]
    /\ stats = NewStats
    /\ jobChan = << >>
    /\ closed = FALSE
    /\ wg = 0
    /\ mu = 0
    /\ workerCount = 0
    /\ spawned = 0
    /\ next = 1
    /\ wk = [w \in 1 .. LargePool |-> IdleWorker]
    /\ hist = NewHist(bucket)
    /\ report = NoReport

\* main from the listing to the first send, lines 76-104, with the pool at
\* its real size.
PoolSpec == PoolInit /\ [][mainCount \/ mainSpawn]_vars

\* The Go scheduler runs every runnable goroutine and every storage or
\* audit call returns: main and each started worker take a step that
\* stays possible.
FairSpec ==
    /\ Init
    /\ [][Next]_vars
    /\ WF_vars(main)
    /\ \A w \in Workers : WF_vars(worker(w))

\* Two runs of the program, one after the other, over the same buckets and
\* with the storage answering the second run as it answered the first.
RerunInit ==
    /\ mainPc = "startup"
    /\ startup = 0
    /\ bucket \in 0 .. MaxKeys
    /\ token = 0
    /\ keys = << >>
    /\ stats = NewStats
    /\ jobChan = << >>
    /\ closed = FALSE
    /\ wg = 0
    /\ mu = 0
    /\ workerCount = 0
    /\ spawned = 0
    /\ next = 1
    /\ wk = [w \in Workers |-> IdleWorker]
    /\ hist = [NewHist(bucket) EXCEPT
          !.run = 1,
          !.storage = [k \in 1 .. bucket |-> NoAnswers],
          !.dst = [k \in 1 .. bucket |-> 0]]
    /\ report = NoReport

RerunSpec == RerunInit /\ [][Next \/ mainRestart]_vars


\* ------------------------------------------------------------ properties
RECURSIVE SumTo(_, _)
SumTo(f, n) == IF n = 0 THEN 0 ELSE f[n] + SumTo(f, n - 1)

\* the number of jobs received from jobChan so far
Dequeued == SumTo(hist.taken, bucket)

\* the number of logToDB calls so far
AuditPushed == hist.audit.success + hist.audit.error

\* main started the pool and every worker it started has returned
PoolExited ==
    /\ workerCount > 0
    /\ spawned = workerCount
    /\ \A w \in 1 .. workerCount : wk[w].pc = "exited"

\* worker positions at which moveObject has returned for the job in hand
Returned == {"w_lock", "w_crit", "logToDB"}

\* worker positions inside a mu.Lock() ... mu.Unlock() section
Critical == {"mo_crit", "fb_crit", "fm_crit", "w_crit"}

Ops(calls) == {calls[i].op : i \in DOMAIN calls}

\* C1: once every worker has exited, SuccessCount + ErrorCount equals the
\* number of jobs received from the channel, which equals the number of
\* logToDB calls (one per received job).
C1_CountsMatchDequeued ==
    PoolExited =>
        /\ stats.SuccessCount + stats.ErrorCount = Dequeued
        /\ Dequeued = AuditPushed
        /\ \A k \in 1 .. bucket : hist.logged[k] = hist.taken[k]

C1_Witness ==
    /\ PoolExited
    /\ Dequeued = MaxKeys
    /\ stats.SuccessCount >= 1
    /\ stats.ErrorCount >= 1

\* C2: SuccessCount + ErrorCount never exceeds TotalFiles, and the step of a
\* worker that counts its job adds exactly 1 to ErrorCount when moveObject
\* returned an error and exactly 1 to SuccessCount otherwise, leaving the
\* other counter alone; a job is counted once, and no other step of a
\* worker changes either counter.
C2_Counted(w) ==
    IF wk[w].pc = "w_crit" /\ wk'[w].pc # "w_crit"
      THEN IF wk[w].err # "nil"
             THEN /\ stats'.ErrorCount = stats.ErrorCount + 1
                  /\ stats'.SuccessCount = stats.SuccessCount
                  /\ wk'[w].errInc = 1 /\ wk'[w].succInc = 0
             ELSE /\ stats'.SuccessCount = stats.SuccessCount + 1
                  /\ stats'.ErrorCount = stats.ErrorCount
                  /\ wk'[w].succInc = 1 /\ wk'[w].errInc = 0
      ELSE wk'[w] # wk[w] =>
             /\ stats'.ErrorCount = stats.ErrorCount
             /\ stats'.SuccessCount = stats.SuccessCount

\* C2: the sum stays within TotalFiles and every counting step adds 1 to
\* exactly one of the two counters, the one the job's outcome selects.
C2_ExactlyOneCounter ==
    /\ [](stats.SuccessCount + stats.ErrorCount <= stats.TotalFiles)
    /\ [][\A w \in Workers : C2_Counted(w)]_vars

C2_Witness ==
    /\ stats.SuccessCount + stats.ErrorCount = stats.TotalFiles
    /\ stats.SuccessCount >= 1
    /\ stats.ErrorCount >= 1
    /\ \E w \in Workers : wk[w].pc = "logToDB" /\ wk[w].errInc = 1

\* C3: with two workers and more jobs than workers, under every
\* interleaving: a worker that is between mu.Lock() and mu.Unlock() holds
\* the mutex, at most one worker is there at a time, every step that
\* changes SuccessCount, ErrorCount, TotalSizeBytes or Method is taken by
\* the holder of the mutex, and once every worker has exited the counters
\* equal those of a serial execution of the same job outcomes.
C3_UnderMutex ==
    \/ stats' = stats
    \/ \E w \in Workers : mu = w /\ wk[w].pc \in Critical /\ wk'[w] # wk[w]
    \/ /\ stats'.SuccessCount = stats.SuccessCount
       /\ stats'.ErrorCount = stats.ErrorCount
       /\ stats'.TotalSizeBytes = stats.TotalSizeBytes
       /\ stats'.Method = stats.Method

C3_Exclusive ==
    /\ \A w \in Workers : wk[w].pc \in Critical => mu = w
    /\ Cardinality({w \in Workers : wk[w].pc \in Critical}) <= 1

C3_Serial ==
    PoolExited =>
        /\ stats.SuccessCount = hist.serial.SuccessCount
        /\ stats.ErrorCount = hist.serial.ErrorCount
        /\ stats.TotalSizeBytes = hist.serial.TotalSizeBytes
        /\ stats.Method = hist.serial.Method
        /\ stats.SuccessCount + stats.ErrorCount = Len(keys)

\* C3: mutual exclusion, updates only by the holder of the mutex, and final
\* counters equal to the serial tally.
C3_NoLostUpdate ==
    /\ [](C3_Exclusive /\ C3_Serial)
    /\ [][C3_UnderMutex]_vars

\* two workers, more jobs than workers, every kind of update made
C3_Witness ==
    /\ PoolExited
    /\ Len(keys) > workerCount
    /\ workerCount = Cardinality(Workers)
    /\ stats.SuccessCount >= 2
    /\ stats.ErrorCount >= 1
    /\ DOMAIN stats.Method = {"server-side", "streaming"}

\* C4: for a job whose CopyObject succeeded, the only storage call made is
\* that CopyObject; the job's steps add 1 to Method["server-side"] (once,
\* before moveObject returns nil) and leave Method["streaming"] and
\* TotalSizeBytes as they were.
C4_State(w) ==
    wk[w].copy = "ok" =>
        /\ Ops(wk[w].calls) = {"CopyObject"}
        /\ wk[w].bytes = ZeroSize
        /\ wk[w].pc \in Returned =>
              wk[w].method = <<"server-side">> /\ wk[w].err = "nil"

C4_Step(w) ==
    (wk[w].copy = "ok" /\ wk'[w] # wk[w]) =>
        /\ stats'.TotalSizeBytes = stats.TotalSizeBytes
        /\ MapGet(stats'.Method, "streaming") = MapGet(stats.Method, "streaming")
        /\ ("streaming" \in DOMAIN stats'.Method)
              <=> ("streaming" \in DOMAIN stats.Method)
        /\ MapGet(stats'.Method, "server-side") =
              MapGet(stats.Method, "server-side")
                 + (IF wk[w].pc = "mo_crit" THEN 1 ELSE 0)

\* C4: a directly copied job makes no other storage call and changes only
\* Method["server-side"], by 1.
C4_DirectCopyFrame ==
    /\ [](\A w \in Workers : C4_State(w))
    /\ [][\A w \in Workers : C4_Step(w)]_vars

\* a directly copied job is being logged while another job has added bytes
C4_Witness ==
    \E w \in Workers :
        /\ wk[w].copy = "ok"
        /\ wk[w].pc = "logToDB"
        /\ stats.TotalSizeBytes # ZeroSize
        /\ "streaming" \in DOMAIN stats.Method

\* the job in hand went to the fallback and HeadObject reported a size
HeadOk(w) == wk[w].copy = "failed" /\ wk[w].err # "head"

\* C5 as stated: every job whose CopyObject fails and whose reported size
\* is at most 5 GiB records the streaming method and adds exactly its size
\* to TotalSizeBytes.
C5_AsStated ==
    \A w \in Workers :
        (HeadOk(w) /\ ~SizeGT(wk[w].fileSize, SizeLimit)
                   /\ wk[w].pc \in Returned) =>
            /\ wk[w].method = <<"streaming">>
            /\ wk[w].bytes = wk[w].fileSize

\* C5, amended: a job whose CopyObject fails and whose reported size is at
\* most 5 GiB adds exactly that size to TotalSizeBytes, in one step, and
\* adds 1 to Method["streaming"] exactly when GetObject and PutObject both
\* succeed; when one of them fails no method is recorded.
C5_State(w) ==
    (HeadOk(w) /\ ~SizeGT(wk[w].fileSize, SizeLimit)
               /\ wk[w].pc \in Returned) =>
        /\ wk[w].bytes = wk[w].fileSize
        /\ wk[w].err \in {"nil", "get", "put"}
        /\ wk[w].err = "nil" =>
              /\ wk[w].method = <<"streaming">>
              /\ Ops(wk[w].calls) =
                    {"CopyObject", "HeadObject", "GetObject", "PutObject"}
        /\ wk[w].err # "nil" => wk[w].method = << >>

C5_Step(w) ==
    (HeadOk(w) /\ ~SizeGT(wk[w].fileSize, SizeLimit) /\ wk'[w] # wk[w]) =>
        /\ stats'.TotalSizeBytes =
              IF wk[w].pc = "fb_crit"
                THEN SizeAdd(stats.TotalSizeBytes, wk[w].fileSize)
                ELSE stats.TotalSizeBytes
        /\ MapGet(stats'.Method, "streaming") =
              MapGet(stats.Method, "streaming")
                 + (IF wk[w].pc = "fm_crit" THEN 1 ELSE 0)
        /\ MapGet(stats'.Method, "server-side") =
              MapGet(stats.Method, "server-side")

\* C5, amended: the size is added exactly once, and the streaming method is
\* recorded exactly when GetObject and PutObject succeed.
C5_StreamedWhenTransferred ==
    /\ [](\A w \in Workers : C5_State(w))
    /\ [][\A w \in Workers : C5_Step(w)]_vars

\* a streamed job is being logged and the total holds other jobs' bytes too
C5_Witness ==
    \E w \in Workers :
        /\ HeadOk(w)
        /\ wk[w].fileSize = SizeLimit
        /\ wk[w].pc = "logToDB"
        /\ wk[w].err = "nil"
        /\ stats.TotalSizeBytes # wk[w].fileSize

\* worker positions after the fallback's size check
Checked == Returned \cup {"fm_lock", "fm_crit"}

\* C6: in the fallback, a job whose reported size is above 5 GiB (here
\* 5 GiB + 1) returns the "too large" error and neither GetObject nor
\* PutObject is called for it; a job of exactly 5 GiB or of 5 GiB - 1 is
\* not rejected: GetObject is called, and PutObject once GetObject
\* succeeded. No GetObject or PutObject is made before the size check.
C6_SizeGate ==
    \A w \in Workers :
        /\ (HeadOk(w) /\ wk[w].pc \in Checked
                      /\ wk[w].fileSize = <<LimitGiB, 1>>) =>
              /\ wk[w].err = "too large"
              /\ Ops(wk[w].calls) = {"CopyObject", "HeadObject"}
        /\ (HeadOk(w) /\ wk[w].pc \in Checked
               /\ wk[w].fileSize \in {<<LimitGiB, 0>>, <<LimitGiB - 1, GiB - 1>>}) =>
              /\ wk[w].err # "too large"
              /\ "GetObject" \in Ops(wk[w].calls)
              /\ wk[w].err # "get" => "PutObject" \in Ops(wk[w].calls)
        /\ wk[w].pc \notin Checked =>
              Ops(wk[w].calls) \cap {"GetObject", "PutObject"} = {}

\* one job of 5 GiB + 1 was rejected while one of exactly 5 GiB was uploaded
C6_Witness ==
    \E v, w \in Workers :
        /\ HeadOk(v) /\ wk[v].fileSize = <<LimitGiB, 1>>
        /\ wk[v].pc = "logToDB" /\ wk[v].err = "too large"
        /\ HeadOk(w) /\ wk[w].fileSize = <<LimitGiB, 0>>
        /\ wk[w].pc = "fm_lock"

\* C7: a job that ends in an error adds nothing to TotalSizeBytes, and once
\* every worker has exited TotalSizeBytes is the sum of the reported sizes
\* of the jobs that were streamed successfully.
C7_ErrorJobsAddNoBytes ==
    /\ \A w \in Workers :
          (wk[w].pc = "logToDB" /\ wk[w].err # "nil") =>
              wk[w].bytes = ZeroSize
    /\ PoolExited => stats.TotalSizeBytes = hist.streamed

\* C8: for every job CopyObject is the first storage call and is made
\* exactly once; when it fails the fallback is entered (HeadObject is the
\* next call) and the job's outcome is the fallback's: the job is counted
\* as a success exactly when the streaming transfer succeeded, and the
\* error it returns is one of the fallback's.
C8_FallbackDecides ==
    \A w \in Workers :
        /\ wk[w].pc \notin {"unstarted", "range", "moveObject", "exited"} =>
              wk[w].copy # "none"
        /\ wk[w].copy # "none" =>
              /\ wk[w].calls[1] = Call("CopyObject", "dst", wk[w].job)
              /\ Cardinality({i \in DOMAIN wk[w].calls :
                                 wk[w].calls[i].op = "CopyObject"}) = 1
        /\ wk[w].copy = "failed" =>
              /\ Len(wk[w].calls) >= 2
              /\ wk[w].calls[2] = Call("HeadObject", "src", wk[w].job)
              /\ wk[w].err \in {"nil", "head", "too large", "get", "put"}
        /\ (wk[w].copy = "failed" /\ wk[w].pc \in Returned) =>
              (wk[w].err = "nil" <=> wk[w].method = <<"streaming">>)
        /\ (wk[w].copy = "failed" /\ wk[w].pc = "logToDB") =>
              /\ wk[w].succInc = (IF wk[w].err = "nil" THEN 1 ELSE 0)
              /\ wk[w].errInc = (IF wk[w].err = "nil" THEN 0 ELSE 1)

\* a job whose CopyObject failed has been counted as a success
C8_Witness ==
    \E w \in Workers :
        /\ wk[w].copy = "failed"
        /\ wk[w].pc = "logToDB"
        /\ wk[w].err = "nil"
        /\ wk[w].succInc = 1
        /\ stats.ErrorCount = 0

\* C9: a job's failure stays with the job. The worker that logged a job,
\* failed or not, is back at the head of its loop, where it can receive
\* whenever the channel holds a job; a worker exits only when the channel
\* is closed and drained; the fatal exit is entered only from the startup
\* checks and the listing, before any worker exists; and once every worker
\* has exited every listed key has been processed, whatever failed.
C9_State ==
    /\ mainPc = "fatal" => (spawned = 0 /\ Dequeued = 0 /\ stats.ErrorCount = 0)
    /\ \A w \in Workers :
          /\ wk[w].pc = "exited" => (closed /\ jobChan = << >>)
          /\ (wk[w].pc = "range" /\ jobChan # << >>) =>
                ENABLED workerReceive(w)
    /\ PoolExited => \A k \in 1 .. Len(keys) : hist.logged[k] = 1

C9_Step ==
    /\ mainPc' = "fatal" => mainPc \in {"startup", "listKeys", "fatal"}
    /\ \A w \in Workers :
          (wk[w].pc # "unstarted" /\ wk'[w] # wk[w]) =>
              /\ wk[w].pc = "logToDB" => wk'[w].pc = "range"
              /\ mainPc' = mainPc
              /\ \A v \in Workers \ {w} : wk'[v] = wk[v]

\* C9: no job failure stops a worker, the pool, another job or the process.
C9_FailureIsolated == []C9_State /\ [][C9_Step]_vars

\* every job of the run failed and the pool still drained the queue
C9_Witness ==
    /\ PoolExited
    /\ mainPc = "done"
    /\ stats.ErrorCount = MaxKeys
    /\ \A k \in 1 .. MaxKeys : hist.logged[k] = 1

\* main is past wg.Wait()
PastWait == mainPc \in {"stamp", "report", "done"}

\* C10: in a run that started the pool, main is past wg.Wait() (where it
\* stamps EndTime and then computes the report) only when the channel has
\* been closed and drained and every worker it started has exited; from
\* then on no step changes the counters, the byte total or the Method map,
\* and the report, once computed, holds the values of stats, which no step
\* changes any more.
C10_State ==
    /\ (PastWait /\ workerCount > 0) =>
          /\ closed
          /\ jobChan = << >>
          /\ wg = 0
          /\ PoolExited
          /\ mu = 0
    /\ (report.written = 1 /\ workerCount > 0) =>
          /\ mainPc = "done"
          /\ report.workerCount = workerCount
          /\ report.SuccessCount = stats.SuccessCount
          /\ report.ErrorCount = stats.ErrorCount
          /\ report.TotalSizeBytes = stats.TotalSizeBytes
          /\ report.Method = stats.Method
          /\ report.Duration = stats.EndTime - stats.StartTime

C10_Step ==
    /\ PastWait =>
          /\ stats'.SuccessCount = stats.SuccessCount
          /\ stats'.ErrorCount = stats.ErrorCount
          /\ stats'.TotalSizeBytes = stats.TotalSizeBytes
          /\ stats'.Method = stats.Method
          /\ wk' = wk
    /\ mainPc \in {"report", "done"} => stats' = stats
    /\ stats'.EndTime # stats.EndTime => mainPc \in {"stamp", "emptyReport"}

\* C10: EndTime and the report come after close and after every worker's
\* exit, and nothing changes the stats afterwards.
C10_Barrier == []C10_State /\ [][C10_Step]_vars

\* the report of a run of MaxKeys jobs with successes and errors
C10_Witness ==
    /\ mainPc = "done"
    /\ report.written = 1
    /\ PoolExited
    /\ report.SuccessCount >= 1
    /\ report.ErrorCount >= 1
    /\ report.SuccessCount + report.ErrorCount = MaxKeys

\* the capacity of jobChan
Capacity == Min(QueueCap, MaxQueue)

\* main is blocked in `jobChan <- Job{Key: key}` on a full buffer
ProducerBlocked ==
    /\ mainPc = "enqueue"
    /\ next <= Len(keys)
    /\ Len(jobChan) = Capacity

\* C11: no state short of the end of main is stuck, and while the producer
\* is blocked on a full queue some worker can take a step.
C11_NoDeadlock ==
    /\ mainPc \in {"done", "fatal"} \/ ENABLED Next
    /\ ProducerBlocked => \E w \in Workers : ENABLED worker(w)
    /\ Len(jobChan) <= Capacity

\* the end of a run that started the pool: every key was enqueued, the
\* channel is closed and drained, every worker has exited, main is past
\* wg.Wait() and the report is written
C11_Finished ==
    /\ mainPc = "done"
    /\ next = Len(keys) + 1
    /\ closed
    /\ jobChan = << >>
    /\ PoolExited
    /\ report.written = 1

\* C11: provided every storage and audit call returns and every goroutine
\* is scheduled, a run over a non-empty key set terminates: every key is
\* enqueued (also with more keys than the queue holds or than there are
\* workers), the channel is closed, every worker exits and main writes the
\* report; no deadlock is reachable.
C11_Terminates ==
    /\ []C11_NoDeadlock
    /\ (mainPc = "spawn") ~> C11_Finished

\* the producer is blocked on a full queue, with more keys than the queue
\* holds and than there are workers
C11_Witness ==
    /\ ProducerBlocked
    /\ Len(keys) > Capacity
    /\ Len(keys) > workerCount
    /\ workerCount = Cardinality(Workers)

\* the workers that have the job of key k in hand
Holders(k) ==
    {w \in Workers : wk[w].job = k /\ wk[w].pc \notin {"unstarted", "range", "exited"}}

\* main has put the job of key k on the channel
Sent(k) == k < next

\* a worker with a job in hand
Busy(w) == wk[w].pc \notin {"unstarted", "range", "exited"}

\* C12: every job made from a listed key is consumed exactly once by
\* exactly one worker. The channel holds, once each and in the order sent,
\* exactly the keys that were sent and not received; a key is received at
\* most once, and only if it was sent; a job in hand was received and is
\* not yet logged, no two workers have the same job in hand and every
\* received job is in hand or logged; once every worker has exited every
\* listed key was received once and processed to the end once.
C12_State ==
    /\ \A i \in DOMAIN jobChan :
          /\ Sent(jobChan[i]) /\ hist.taken[jobChan[i]] = 0
          /\ i > 1 => jobChan[i - 1] < jobChan[i]
    /\ Len(jobChan) + Dequeued = next - 1
    /\ \A k \in 1 .. bucket :
          hist.taken[k] <= 1 /\ hist.logged[k] <= hist.taken[k]
    /\ \A w \in Workers :
          Busy(w) =>
              /\ wk[w].job \in 1 .. Len(keys)
              /\ hist.taken[wk[w].job] = 1 /\ hist.logged[wk[w].job] = 0
              /\ \A v \in Workers \ {w} : Busy(v) => wk[v].job # wk[w].job
    /\ Cardinality({w \in Workers : Busy(w)}) = Dequeued - AuditPushed
    /\ PoolExited =>
          \A k \in 1 .. Len(keys) : hist.taken[k] = 1 /\ hist.logged[k] = 1

\* C12: a receive takes the job at the head of the channel off the
\* channel and gives it to the one worker that received.
C12_Step ==
    hist'.taken # hist.taken =>
        /\ jobChan # << >>
        /\ jobChan' = Tail(jobChan)
        /\ hist'.taken = [hist.taken EXCEPT ![Head(jobChan)] = @ + 1]
        /\ \E w \in Workers :
              /\ wk[w].pc = "range"
              /\ wk'[w].job = Head(jobChan)
              /\ \A v \in Workers \ {w} : wk'[v] = wk[v]

\* C12: every job is consumed exactly once, by exactly one worker, and
\* none is left unprocessed when the pool has exited.
C12_ExactlyOnce == []C12_State /\ [][C12_Step]_vars

\* two workers hold different jobs while a third job waits in the channel
C12_Witness ==
    /\ \E v, w \in Workers :
          /\ v # w
          /\ wk[v].pc = "moveObject" /\ wk[w].pc = "logToDB"
          /\ wk[v].job # wk[w].job
    /\ jobChan # << >>
    /\ Dequeued = 2

\* C13: a worker whose insert failed is back at the head of its loop, where
\* it receives the next job whenever the channel holds one and exits when
\* the channel is closed and drained.
C13_State ==
    \A w \in Workers :
        /\ wk[w].pc = "logToDB" =>
              /\ wk[w].succInc = (IF wk[w].err = "nil" THEN 1 ELSE 0)
              /\ wk[w].errInc = (IF wk[w].err = "nil" THEN 0 ELSE 1)
        /\ wk[w].insertErr =>
              /\ wk[w].pc = "range"
              /\ jobChan # << >> => ENABLED workerReceive(w)
              /\ (jobChan = << >> /\ closed) => ENABLED workerExit(w)

\* C13: the logToDB call of a job, whether its insert fails or not, is made
\* with the status the job's error selects, after the job was counted, and
\* changes no counter, stops no worker and does not touch main.
C13_Step ==
    \A w \in Workers :
        (wk[w].pc = "logToDB" /\ wk'[w] # wk[w]) =>
            /\ stats' = stats
            /\ hist'.audit[Status(wk[w].err)] = hist.audit[Status(wk[w].err)] + 1
            /\ hist'.serial = hist.serial
            /\ wk'[w].pc = "range"
            /\ wg' = wg
            /\ mainPc' = mainPc
            /\ \A v \in Workers \ {w} : wk'[v] = wk[v]

\* C13: a failed audit insert changes neither the job's status nor its
\* counter increment, the worker goes on with the next job, and the run
\* still ends with the report and with every job counted.
C13_AuditFailureIgnored ==
    /\ []C13_State
    /\ [][C13_Step]_vars
    /\ (\E w \in Workers : wk[w].insertErr) ~>
          (C11_Finished /\ stats.SuccessCount + stats.ErrorCount = Len(keys))

\* the insert failed for a job that succeeded, the job is counted as a
\* success, and the worker can receive the next job
C13_Witness ==
    \E w \in Workers :
        /\ wk[w].insertErr
        /\ stats.SuccessCount = 1
        /\ stats.ErrorCount = 0
        /\ hist.audit.success = 1
        /\ jobChan # << >>

\* the listing returned no key
EmptyRun == keys = << >> /\ mainPc \in {"listed", "emptyReport", "done"}

\* C14: in the empty run no worker is started, nothing is enqueued or
\* received, no storage or audit call is made and every counter is 0; the
\* report, once main is done, was written once, with 0 total, 0 success,
\* 0 error and a worker count of 0.
C14_State ==
    EmptyRun =>
        /\ workerCount = 0 /\ spawned = 0 /\ wg = 0
        /\ \A w \in Workers : wk[w] = IdleWorker
        /\ jobChan = << >> /\ ~closed /\ next = 1
        /\ Dequeued = 0 /\ AuditPushed = 0
        /\ stats.TotalFiles = 0 /\ stats.SuccessCount = 0
        /\ stats.ErrorCount = 0 /\ stats.Method = << >>
        /\ stats.TotalSizeBytes = ZeroSize
        /\ mainPc # "done" => report = NoReport
        /\ mainPc = "done" =>
              /\ report.written = 1
              /\ report.TotalFiles = 0
              /\ report.SuccessCount = 0
              /\ report.ErrorCount = 0
              /\ report.workerCount = 0

\* C14: the empty run goes from the listing to the report and to the end of
\* main, never to the fatal exit, and no worker takes a step.
C14_Step ==
    EmptyRun =>
        /\ mainPc' \in {"listed", "emptyReport", "done"}
        /\ mainPc = "done" => mainPc' = "done" /\ report' = report
        /\ wk' = wk
        /\ jobChan' = jobChan
        /\ hist'.taken = hist.taken
        /\ hist'.logged = hist.logged
        /\ hist'.audit = hist.audit

\* C14: a listing of zero keys ends the run with a zero report written
\* once, without a worker, a transfer, an audit call or the fatal exit.
C14_EmptyRun == []C14_State /\ [][C14_Step]_vars

\* the empty run has written its report
C14_Witness ==
    /\ bucket = 0
    /\ mainPc = "done"
    /\ report.written = 1
    /\ report.TotalFiles = 0

\* no job was scheduled: no worker started, nothing sent or received, no
\* storage or audit call made, nothing counted, no report
NothingScheduled ==
    /\ workerCount = 0 /\ spawned = 0 /\ wg = 0
    /\ \A w \in Workers : wk[w] = IdleWorker
    /\ jobChan = << >> /\ next = 1 /\ ~closed
    /\ Dequeued = 0 /\ AuditPushed = 0
    /\ stats = NewStats
    /\ report = NoReport

\* C15: the fatal exit is the end of the process and is taken before any
\* job is scheduled, whichever startup check or listing request failed
\* (also a request for a later page, when keys were already listed); main
\* goes past the startup checks only when all of them passed and past the
\* listing only when every page was served; and jobs are scheduled only
\* after that.
C15_State ==
    /\ mainPc = "fatal" => (NothingScheduled /\ ~ENABLED Next)
    /\ mainPc \notin {"startup", "fatal"} => startup = Len(StartupSteps)
    /\ mainPc \notin {"startup", "listKeys", "fatal"} =>
          keys = [i \in 1 .. bucket |-> i]
    /\ mainPc \in {"startup", "listKeys", "listed"} => NothingScheduled

\* C15: the fatal exit is taken only from a startup check or from the
\* listing, and a step taken there schedules nothing.
C15_Step ==
    /\ mainPc' = "fatal" => mainPc \in {"startup", "listKeys"}
    /\ mainPc \in {"startup", "listKeys"} =>
          (wk' = wk /\ jobChan' = jobChan /\ next' = next /\ stats' = stats)

\* C15: a fatal startup or listing failure ends the run before any job is
\* scheduled.
C15_FatalBeforeJobs == []C15_State /\ [][C15_Step]_vars

\* the request for a later page failed after keys were listed
C15_Witness ==
    /\ mainPc = "fatal"
    /\ startup = Len(StartupSteps)
    /\ token > 0
    /\ Len(keys) = token
    /\ Len(keys) < bucket

\* C16: the report is written at most once, and exactly once when main has
\* returned; it then accounts for every listed key, as a success or as an
\* error, so with no success ErrorCount = TotalFiles.
C16_State ==
    /\ report.written <= 1
    /\ report.written = 1 <=> mainPc = "done"
    /\ mainPc = "done" =>
          /\ report.TotalFiles = Len(keys)
          /\ report.SuccessCount + report.ErrorCount = report.TotalFiles
          /\ report.ErrorCount = hist.audit.error
          /\ ~ENABLED Next

\* C16: once the listing has succeeded no step leads to the fatal exit,
\* whatever the jobs' outcomes.
C16_Step ==
    mainPc \notin {"startup", "listKeys"} => mainPc' # "fatal"

\* C16: a run whose startup checks and listing succeed ends, under every
\* outcome of its jobs, with the report written exactly once and not with
\* the fatal exit.
C16_AlwaysReports ==
    /\ []C16_State
    /\ [][C16_Step]_vars
    /\ (mainPc = "listed") ~> (mainPc = "done" /\ report.written = 1)

\* every job failed and the report says so
C16_Witness ==
    /\ mainPc = "done"
    /\ report.written = 1
    /\ report.saved
    /\ report.TotalFiles = MaxKeys
    /\ report.SuccessCount = 0
    /\ report.ErrorCount = report.TotalFiles

\* the divisors of the divisions made for the report
Divisors ==
    {report.filesPerSecond[2], report.mbPerSecond[2], report.successRate[2]}
        \cup {report.percentage[m][2] : m \in DOMAIN report.percentage}

\* C20: whenever the report is computed no division has a zero divisor: a
\* method count is divided by SuccessCount only when SuccessCount > 0
\* (whenever Method has an entry, SuccessCount > 0), the throughput is not
\* computed for a zero elapsed time and the success rate is not computed
\* for TotalFiles = 0; both are then left at 0.
C20_State ==
    report.written >= 1 =>
        /\ 0 \notin Divisors
        /\ DOMAIN report.Method # {} => report.SuccessCount > 0
        /\ \A m \in DOMAIN report.Method :
              /\ report.Method[m] >= 1
              /\ report.percentage[m] = Quot(report.Method[m], report.SuccessCount)
        /\ report.Duration = 0 =>
              /\ report.filesPerSecond = ZeroQuot
              /\ report.mbPerSecond = Quot(ZeroSize, 1)
        /\ report.TotalFiles = 0 => report.successRate = ZeroQuot

\* C20: the step that computes the report is taken with SuccessCount > 0
\* whenever Method has an entry.
C20_Step ==
    report' # report =>
        (DOMAIN stats'.Method # {} => stats'.SuccessCount > 0)

\* C20: no division of the report has a zero divisor.
C20_NoZeroDivisor == []C20_State /\ [][C20_Step]_vars

\* the report of a run in which every job failed and no time elapsed
C20_Witness ==
    /\ report.written = 1
    /\ report.TotalFiles = MaxKeys
    /\ report.SuccessCount = 0
    /\ report.Method = << >>
    /\ report.Duration = 0

\* the workers main has started
Started == {w \in DOMAIN wk : wk[w].pc # "unstarted"}

\* C17: once chosen, workerCount is 25 for fewer than 1000 keys (so for
\* 999) and 150 otherwise (so for 1000); main starts workers one by one up
\* to that number and sends the first job only after exactly that many
\* were started.
C17_State ==
    /\ mainPc = "listed" => (workerCount = 0 /\ Started = {})
    /\ mainPc # "listed" =>
          /\ Len(keys) = 999 => workerCount = 25
          /\ Len(keys) = 1000 => workerCount = 150
          /\ workerCount = (IF Len(keys) <= 999 THEN 25 ELSE 150)
          /\ workerCount = poolSize(stats.TotalFiles)
    /\ Started = 1 .. spawned
    /\ wg = spawned
    /\ spawned <= workerCount
    /\ mainPc = "enqueue" => spawned = workerCount
    /\ next = 1 /\ jobChan = << >>

\* C17: workerCount is assigned once, before any worker is started and
\* before any job is sent.
C17_Step ==
    workerCount' # workerCount =>
        /\ mainPc = "listed"
        /\ spawned = 0
        /\ next = 1

RECURSIVE Concat(_)
Concat(ps) == IF ps = << >> THEN << >> ELSE ps[1].Contents \o Concat(Tail(ps))

\* C18: while listKeys runs and when it has returned or failed, the keys
\* collected are exactly the concatenation of the pages served, in page
\* order; the first request carries no token and every later request
\* carries the token the previous page returned; every page but the last
\* reported more to come, and listKeys goes on exactly while the last page
\* did; it returns after the first page that reports no more, with every
\* key of the bucket once, in order, after at most as many requests as
\* there are keys (one for an empty bucket).
C18_State ==
    LET requests == hist.requests
        pages == hist.pages
        last == pages[Len(pages)]
    IN  mainPc \in {"listKeys", "listed", "fatal"} =>
            /\ keys = Concat(pages)
            /\ Len(requests) = Len(pages)
            /\ \A i \in DOMAIN requests :
                  requests[i] = IF i = 1 THEN 0
                                ELSE pages[i - 1].NextContinuationToken
            /\ \A i \in 1 .. Len(pages) - 1 : pages[i].IsTruncated
            /\ Len(pages) <= (IF bucket = 0 THEN 1 ELSE bucket)
            /\ mainPc = "listKeys" =>
                  /\ pages # << >> => last.IsTruncated
                  /\ token = (IF pages = << >> THEN 0
                              ELSE last.NextContinuationToken)
                  /\ ENABLED listKeys
            /\ mainPc = "listed" =>
                  /\ pages # << >>
                  /\ ~last.IsTruncated
                  /\ keys = [i \in 1 .. bucket |-> i]

\* C18: the key sequence grows only in listKeys, by the page just served
\* appended at its end, and is not changed once listKeys has returned.
C18_Step ==
    keys' # keys =>
        /\ mainPc = "listKeys"
        /\ Len(hist'.pages) = Len(hist.pages) + 1
        /\ keys' = keys \o hist'.pages[Len(hist'.pages)].Contents
        /\ hist'.requests = Append(hist.requests, token)

\* C18: listKeys follows the continuation tokens to the last page and
\* returns the concatenation of the pages in page order.
C18_Pagination == []C18_State /\ [][C18_Step]_vars

\* listKeys has returned the keys of three pages
C18_Witness ==
    /\ mainPc = "listed"
    /\ Len(hist.pages) = 3
    /\ Len(keys) = MaxKeys
    /\ hist.requests[3] > hist.requests[2]

\* the job of key k was counted in SuccessCount or ErrorCount
Counted(k) ==
    \/ hist.logged[k] >= 1
    \/ \E w \in Holders(k) : wk[w].succInc + wk[w].errInc >= 1

\* C19: a job is on the channel or beyond only after the listing has
\* returned every key; it was received only if it was sent; a worker has
\* in hand only a job that was received and is not yet logged, and has
\* counted it when it is about to log it; and a job's audit record was
\* pushed only if it was received.
C19_State ==
    /\ next > 1 =>
          /\ mainPc \in {"enqueue", "wait", "stamp", "report", "done"}
          /\ keys = [i \in 1 .. bucket |-> i]
    /\ \A k \in 1 .. bucket :
          /\ hist.taken[k] >= 1 => Sent(k)
          /\ hist.logged[k] <= hist.taken[k]
    /\ \A w \in Workers :
          wk[w].pc \notin {"unstarted", "range", "exited"} =>
              /\ hist.taken[wk[w].job] = 1
              /\ hist.logged[wk[w].job] = 0
              /\ wk[w].succInc + wk[w].errInc =
                    (IF wk[w].pc = "logToDB" THEN 1 ELSE 0)

\* C19: each event of a job happens in a state where the one before it has
\* happened: the send after the listing, the receive of a job that is on
\* the channel, the counting by a worker that holds the job after
\* moveObject returned, the audit record by that worker after the counting.
C19_Step ==
    /\ next' # next => (mainPc = "enqueue" /\ Len(keys) = bucket)
    /\ hist'.taken # hist.taken =>
          (jobChan # << >> /\ Sent(Head(jobChan))
              /\ hist'.taken[Head(jobChan)] = 1)
    /\ (stats'.SuccessCount # stats.SuccessCount
            \/ stats'.ErrorCount # stats.ErrorCount) =>
          \E w \in Workers :
              /\ wk[w].pc = "w_crit" /\ wk'[w].pc = "logToDB"
              /\ hist.taken[wk[w].job] = 1
    /\ hist'.logged # hist.logged =>
          \E w \in Workers :
              /\ wk[w].pc = "logToDB" /\ wk'[w].pc = "range"
              /\ wk[w].succInc + wk[w].errInc = 1
              /\ hist'.logged = [hist.logged EXCEPT ![wk[w].job] = 1]

\* C19: within one job the listing precedes the send, the send the
\* receive, and the receive the recording of the outcome.
C19_JobOrder == []C19_State /\ [][C19_Step]_vars

\* jobs are not ordered among themselves: the job sent second is recorded
\* while the job sent first has not been counted yet
C19_Witness ==
    /\ bucket >= 2
    /\ hist.logged[2] = 1
    /\ hist.taken[1] = 1
    /\ ~Counted(1)

\* C22: a job whose HeadObject failed has made CopyObject and HeadObject
\* and no other storage call, has returned the "head object error" that
\* wraps the cause, has added nothing to TotalSizeBytes and no Method
\* entry, and is counted as an error and not as a success.
C22_State ==
    \A w \in Workers :
        wk[w].err = "head" =>
            /\ wk[w].copy = "failed"
            /\ wk[w].calls = << Call("CopyObject", "dst", wk[w].job),
                                Call("HeadObject", "src", wk[w].job) >>
            /\ wk[w].bytes = ZeroSize
            /\ wk[w].method = << >>
            /\ wk[w].pc \in Returned
            /\ wk[w].succInc = 0
            /\ wk[w].errInc = (IF wk[w].pc = "logToDB" THEN 1 ELSE 0)

\* C22: no step of such a job changes TotalSizeBytes, the Method map or
\* SuccessCount, and exactly its counting step adds 1 to ErrorCount.
C22_Step ==
    \A w \in Workers :
        /\ (wk'[w].err = "head" /\ wk[w].err # "head") => stats' = stats
        /\ (wk[w].err = "head" /\ wk'[w] # wk[w]) =>
              /\ stats'.TotalSizeBytes = stats.TotalSizeBytes
              /\ stats'.Method = stats.Method
              /\ stats'.SuccessCount = stats.SuccessCount
              /\ stats'.ErrorCount =
                    stats.ErrorCount + (IF wk[w].pc = "w_crit" THEN 1 ELSE 0)

\* C22: a failed HeadObject fails the job without GetObject or PutObject,
\* leaves TotalSizeBytes and Method alone and increments exactly ErrorCount.
C22_HeadFailure == []C22_State /\ [][C22_Step]_vars

\* a job whose HeadObject failed is counted as the run's only error while
\* other jobs have added bytes and a method
C22_Witness ==
    \E w \in Workers :
        /\ wk[w].err = "head"
        /\ wk[w].pc = "logToDB"
        /\ stats.ErrorCount = 1
        /\ stats.TotalSizeBytes # ZeroSize
        /\ stats.Method # << >>

\* the sum of the counts in stats.Method
MethodSum ==
    MapGet(stats.Method, "server-side") + MapGet(stats.Method, "streaming")

\* the workers whose job has been counted in Method and not yet in
\* SuccessCount
MethodAhead ==
    {w \in Workers : Busy(w) /\ wk[w].method # << >> /\ wk[w].succInc = 0}

\* C23: the Method map has no other entries than the two methods; a job
\* whose moveObject has returned has incremented exactly one method
\* counter, once, if it succeeded and none if it failed; the sum of the
\* Method counts exceeds SuccessCount by the number of workers that are
\* between the two critical sections of a successful job, so by at most the
\* number of workers; and the two are equal once every worker has exited.
C23_State ==
    /\ DOMAIN stats.Method \subseteq {"server-side", "streaming"}
    /\ \A w \in Workers :
          /\ Len(wk[w].method) <= 1
          /\ wk[w].pc \in Returned =>
                Len(wk[w].method) = (IF wk[w].err = "nil" THEN 1 ELSE 0)
    /\ MethodSum = stats.SuccessCount + Cardinality(MethodAhead)
    /\ MethodSum >= stats.SuccessCount
    /\ MethodSum <= stats.SuccessCount + workerCount
    /\ PoolExited => MethodSum = stats.SuccessCount

\* C23: the sum of the Method counts changes only by 1, in the step that
\* ends the method's critical section of a job about to return nil.
C23_Step ==
    MethodSum' # MethodSum =>
        /\ MethodSum' = MethodSum + 1
        /\ \E w \in Workers :
              /\ wk[w].pc \in {"mo_crit", "fm_crit"}
              /\ wk'[w].pc = "w_lock"
              /\ wk'[w].err = "nil"
              /\ wk[w].method = << >>

\* C23: one method count per successful job, none per failed job; the sum
\* of the method counts runs ahead of SuccessCount by at most the number of
\* workers and equals it at the end.
C23_MethodPerSuccess == []C23_State /\ [][C23_Step]_vars

\* both workers have counted their method and not yet their success
C23_Witness ==
    /\ Cardinality(MethodAhead) = Cardinality(Workers)
    /\ MethodSum = stats.SuccessCount + 2
    /\ stats.ErrorCount = 1

\* the workers that have counted their job and not yet pushed its audit
\* record
Unlogged == {w \in Workers : wk[w].pc = "logToDB"}

\* C24 as stated: the counter update and the push of the audit record are
\* one atomic step, so in every state the number of audit records pushed
\* equals SuccessCount + ErrorCount and no job is counted but not logged.
C24_AsStated ==
    /\ AuditPushed = stats.SuccessCount + stats.ErrorCount
    /\ Unlogged = {}

\* C24, amended: a job is counted under the mutex and its audit record is
\* pushed afterwards by the same worker, outside the mutex. The counters
\* are ahead of the records pushed by the number of workers between the two
\* steps, per status, hence by at most the number of workers, and equal
\* them once every worker has exited.
C24_State ==
    /\ hist.audit.success
          + Cardinality({w \in Unlogged : wk[w].succInc = 1}) = stats.SuccessCount
    /\ hist.audit.error
          + Cardinality({w \in Unlogged : wk[w].errInc = 1}) = stats.ErrorCount
    /\ AuditPushed <= stats.SuccessCount + stats.ErrorCount
    /\ stats.SuccessCount + stats.ErrorCount <= AuditPushed + workerCount
    /\ PoolExited => AuditPushed = stats.SuccessCount + stats.ErrorCount

\* C24, amended: the record a worker pushes has the status "success"
\* exactly when the job incremented SuccessCount, and the push comes in a
\* later step than the counting, which holds the mutex while the push does
\* not.
C24_Step ==
    \A w \in Workers :
        /\ (wk[w].pc = "logToDB" /\ wk'[w] # wk[w]) =>
              /\ mu # w
              /\ hist'.audit.success =
                    hist.audit.success + (IF wk[w].succInc = 1 THEN 1 ELSE 0)
              /\ hist'.audit.error =
                    hist.audit.error + (IF wk[w].succInc = 1 THEN 0 ELSE 1)
        /\ (wk[w].pc = "w_crit" /\ wk'[w] # wk[w]) =>
              (mu = w /\ hist'.audit = hist.audit /\ wk'[w].pc = "logToDB")

\* C24, amended: counted under the mutex, logged afterwards with the
\* matching status; the counts agree at the end of the run.
C24_CountThenLog == []C24_State /\ [][C24_Step]_vars

\* a job's SuccessCount increment is visible, the mutex is free, and its
\* audit record has not been pushed
C24_Witness ==
    /\ \E w \in Unlogged : wk[w].succInc = 1
    /\ mu = 0
    /\ stats.SuccessCount = 1
    /\ AuditPushed = 0

\* the destination writes of worker w's job that returned without error
DstWrites(w) ==
    {i \in DOMAIN wk[w].calls :
        \/ wk[w].calls[i].op = "CopyObject" /\ wk[w].copy = "ok"
        \/ wk[w].calls[i].op = "PutObject" /\ wk[w].err # "put"}

\* C25: the job in hand is a listed key; every storage call made for it
\* names that key, CopyObject and PutObject in the destination bucket and
\* HeadObject and GetObject in the source bucket; at most one destination
\* write has succeeded, and PutObject is only called after CopyObject
\* failed.
C25_State ==
    \A w \in Workers :
        Busy(w) =>
            LET written == Cardinality(DstWrites(w))
            IN  /\ \E i \in DOMAIN keys : keys[i] = wk[w].job
                /\ \A i \in DOMAIN wk[w].calls :
                      /\ wk[w].calls[i].key = wk[w].job
                      /\ wk[w].calls[i].bucket =
                            (IF wk[w].calls[i].op \in {"CopyObject", "PutObject"}
                               THEN "dst" ELSE "src")
                /\ written <= 1
                /\ "PutObject" \in Ops(wk[w].calls) => wk[w].copy = "failed"
                /\ wk[w].pc = "logToDB" =>
                      written = (IF wk[w].err = "nil" THEN 1 ELSE 0)

\* C25: a worker keeps its job's key from the receive to the audit record,
\* and the calls made for it are only added to.
C25_Step ==
    \A w \in Workers :
        (wk'[w] # wk[w] /\ Busy(w) /\ wk'[w].pc # "range") =>
            /\ wk'[w].job = wk[w].job
            /\ Len(wk'[w].calls) >= Len(wk[w].calls)
            /\ SubSeq(wk'[w].calls, 1, Len(wk[w].calls)) = wk[w].calls

\* C25: destination writes go to the job's own key in the destination
\* bucket, and at most one of them succeeds per job.
C25_KeysPreserved == []C25_State /\ [][C25_Step]_vars

\* the second key was uploaded by PutObject after its CopyObject failed
C25_Witness ==
    \E w \in Workers :
        /\ wk[w].job = 2
        /\ wk[w].copy = "failed"
        /\ wk[w].pc = "logToDB"
        /\ wk[w].err = "nil"
        /\ wk[w].calls[4] = Call("PutObject", "dst", 2)

\* the audit-sink calls made so far, one per key with a record pushed
AuditCalls == {Exec(k) : k \in {j \in DOMAIN hist.logged : hist.logged[j] > 0}}

\* C26 as stated: every network call a worker makes, the four storage calls
\* and the audit-sink append, is handed the run's context, so that a
\* cancellation reaches a worker blocked in any of them.
C26_ContextRouted ==
    /\ \A w \in Workers : \A i \in DOMAIN wk[w].calls : wk[w].calls[i].ctx
    /\ \A c \in AuditCalls : c.ctx

\* the re-run has written its report
RerunDone == hist.run = 2 /\ mainPc = "done"

\* C21: the re-run's counters never pass the first run's; when the re-run
\* has written its report, SuccessCount, ErrorCount, the method counts and
\* TotalSizeBytes are those the first run ended with, every key has been
\* counted, and the destination holds what it held after the first run:
\* under each key written, the source object of that key.
C21_State ==
    /\ hist.run = 2 =>
          /\ stats.SuccessCount <= hist.first.SuccessCount
          /\ stats.ErrorCount <= hist.first.ErrorCount
          /\ \A m \in DOMAIN stats.Method :
                stats.Method[m] <= MapGet(hist.first.Method, m)
          /\ hist.dst = hist.first.dst
    /\ RerunDone =>
          /\ report.SuccessCount = hist.first.SuccessCount
          /\ report.ErrorCount = hist.first.ErrorCount
          /\ report.Method = hist.first.Method
          /\ report.TotalSizeBytes = hist.first.TotalSizeBytes
          /\ report.SuccessCount + report.ErrorCount = bucket
          /\ \A k \in DOMAIN hist.dst : hist.dst[k] \in {0, k}
          /\ Cardinality({k \in DOMAIN hist.dst : hist.dst[k] = k})
                = report.SuccessCount

\* C21: the re-run starts from a new, zeroed TransferStats and from the
\* destination as the first run left it; a write of the re-run under a key
\* the destination holds leaves the object that was there.
C21_Step ==
    /\ (hist.run = 1 /\ hist'.run = 2) =>
          /\ stats' = NewStats
          /\ hist'.dst = hist.dst
          /\ report' = NoReport
    /\ hist.run = 2 => hist'.dst = hist.dst

====
